---------------------------- MODULE Spec2Model ----------------------------
(***************************************************************************)
(* Stock Analysis Pro (src/app.py): the technical-indicator engine, the    *)
(* dashboard's page run and the Run Backtest handler, as a state machine.  *)
(*                                                                         *)
(* Numbers.  A pandas cell is a float64 or NaN.  A cell is modelled as a   *)
(* pair <<n, d>>: d > 0 is the exact rational n/d in lowest terms,        *)
(* <<0, 0>> is NaN, <<1, 0>> is +inf and <<-1, 0>> is -inf, with IEEE's    *)
(* rules for NaN and for division by zero.  Rational arithmetic is exact,  *)
(* where float64 rounds to 53 bits; the three places where the program     *)
(* leaves the rationals are modelled as follows:                           *)
(*   - the exponential moving averages (ewm) are rounded down to the grid  *)
(*     1/FloatGrid at every step;                                          *)
(*   - the rolling standard deviation of the Bollinger bands is the square *)
(*     root rounded down to the grid 1/StdGrid;                            *)
(*   - a Sharpe ratio mean/std*sqrt(252) is kept as the pair of its sign   *)
(*     and of the exact rational mean^2/variance (see sharpe).            *)
(***************************************************************************)
EXTENDS Integers, Sequences, FiniteSets, TLC

----------------------------------------------------------------------------
(* float64 cells *)

NaN == <<0, 0>>
PosInf == <<1, 0>>
NegInf == <<-1, 0>>

Abs(x) == IF x < 0 THEN -x ELSE x
Sign(x) == IF x < 0 THEN -1 ELSE IF x > 0 THEN 1 ELSE 0
Min2(a, b) == IF a < b THEN a ELSE b

RECURSIVE GCD(_, _)
GCD(a, b) == IF b = 0 THEN a ELSE GCD(b, a % b)

\* The rational n/d, d # 0, in lowest terms with a positive denominator.
Q(n, d) ==
    LET g == GCD(Abs(n), Abs(d))
        s == IF d < 0 THEN -1 ELSE 1
    IN  <<(s * n) \div g, (s * d) \div g>>

I(n) == <<n, 1>>
IsNaN(a) == a = NaN
IsInf(a) == a[2] = 0 /\ a[1] # 0
IsNum(a) == a[2] > 0
IsZero(a) == a[2] > 0 /\ a[1] = 0

Neg(a) == <<-a[1], a[2]>>

Add(a, b) ==
    IF IsNaN(a) \/ IsNaN(b) THEN NaN
    ELSE IF IsInf(a) THEN (IF IsInf(b) /\ b # a THEN NaN ELSE a)
    ELSE IF IsInf(b) THEN b
    ELSE LET g == GCD(a[2], b[2])
         IN  Q(a[1] * (b[2] \div g) + b[1] * (a[2] \div g),
               (a[2] \div g) * b[2])

Sub(a, b) == Add(a, Neg(b))

Mul(a, b) ==
    IF IsNaN(a) \/ IsNaN(b) THEN NaN
    ELSE IF IsInf(a) \/ IsInf(b)
         THEN (IF a[1] = 0 \/ b[1] = 0 THEN NaN
               ELSE <<Sign(a[1]) * Sign(b[1]), 0>>)
    ELSE LET g == GCD(Abs(a[1]), b[2])
             h == GCD(Abs(b[1]), a[2])
         IN  Q((a[1] \div g) * (b[1] \div h), (a[2] \div h) * (b[2] \div g))

\* numpy's float division: x/0 is +-inf, 0/0 is NaN; no exception is raised.
Div(a, b) ==
    IF IsNaN(a) \/ IsNaN(b) THEN NaN
    ELSE IF IsInf(b) THEN (IF IsInf(a) THEN NaN ELSE I(0))
    ELSE IF IsInf(a) THEN (IF b[1] < 0 THEN Neg(a) ELSE a)
    ELSE IF b[1] = 0 THEN <<Sign(a[1]), 0>>
    ELSE Mul(a, Q(b[2], b[1]))

\* a < b on floats: False when either side is NaN.
Lt(a, b) ==
    /\ ~IsNaN(a)
    /\ ~IsNaN(b)
    /\ a # b
    /\ IF IsInf(a) THEN a = NegInf
       ELSE IF IsInf(b) THEN b = PosInf
       ELSE LET g == GCD(a[2], b[2])
            IN  a[1] * (b[2] \div g) < b[1] * (a[2] \div g)

Gt(a, b) == Lt(b, a)
Le(a, b) == ~IsNaN(a) /\ ~IsNaN(b) /\ ~Lt(b, a)

\* The largest r >= 0 with r * r <= n, n >= 0.
RECURSIVE ISqrtIn(_, _, _)
ISqrtIn(n, lo, hi) ==
    IF lo >= hi THEN lo
    ELSE LET mid == (lo + hi + 1) \div 2
         IN  IF mid <= n \div mid THEN ISqrtIn(n, mid, hi)
             ELSE ISqrtIn(n, lo, mid - 1)

ISqrt(n) == IF n <= 0 THEN 0 ELSE ISqrtIn(n, 1, Min2(n, 46340))

----------------------------------------------------------------------------
(* Series: sequences of cells.  Scan builds a recurrence by halving its  *)
(* range, each half evaluated before the next one starts.                 *)

RECURSIVE ScanRange(_, _, _, _)
ScanRange(F(_, _), lo, hi, acc) ==
    IF lo > hi THEN acc
    ELSE IF lo = hi THEN Append(acc, F(acc, lo))
    ELSE LET mid == (lo + hi) \div 2
             a == ScanRange(F, lo, mid, acc)
         IN  IF Len(a) = mid THEN ScanRange(F, mid + 1, hi, a) ELSE <<>>

\* <<F(<<>>, 1), F(<<e1>>, 2), ..., F(<<e1..e(n-1)>>, n)>>: element i from
\* the elements before it.
Scan(F(_, _), n) == ScanRange(F, 1, n, <<>>)

\* <<F(1), ..., F(n)>>: every element on its own.
Map(F(_), n) == <<>> \o [i \in 1..n |-> F(i)]

SameLen(a, b) == IF Len(a) = Len(b) THEN Len(a) ELSE 0

----------------------------------------------------------------------------
(* pandas Series operations *)

\* Resolution of the rounded operations (ewm, square root).
FloatGrid == 10000
StdGrid == 100

RECURSIVE SumRange(_, _, _)
SumRange(s, lo, hi) ==
    IF lo > hi THEN I(0)
    ELSE IF lo = hi THEN s[lo]
    ELSE LET mid == (lo + hi) \div 2
         IN  Add(SumRange(s, lo, mid), SumRange(s, mid + 1, hi))

\* Series.diff(): NaN at the first row.
diff(s) ==
    LET F(i) == IF i = 1 THEN NaN ELSE Sub(s[i], s[i - 1])
    IN  Map(F, Len(s))

\* Series.pct_change(): s[i] / s[i-1] - 1, NaN at the first row.
pct_change(s) ==
    LET F(i) == IF i = 1 THEN NaN ELSE Sub(Div(s[i], s[i - 1]), I(1))
    IN  Map(F, Len(s))

\* Series.shift(1): NaN at the first row.
shift(s) ==
    LET F(i) == IF i = 1 THEN NaN ELSE s[i - 1]
    IN  Map(F, Len(s))

\* delta.where(delta > 0, 0): a NaN delta fails the condition and becomes 0.
where_gt0(s) ==
    LET F(i) == IF Gt(s[i], I(0)) THEN s[i] ELSE I(0)
    IN  Map(F, Len(s))

\* -delta.where(delta < 0, 0)
neg_where_lt0(s) ==
    LET F(i) == IF Lt(s[i], I(0)) THEN Neg(s[i]) ELSE I(0)
    IN  Map(F, Len(s))

\* Series.replace(0, np.nan)
replace_0_nan(s) ==
    LET F(i) == IF IsZero(s[i]) THEN NaN ELSE s[i]
    IN  Map(F, Len(s))

\* Series.rolling(window=w).mean(): min_periods = w, so NaN at the first
\* w - 1 rows and wherever the window holds a NaN.
rolling_mean(s, w) ==
    LET F(i) == IF i < w THEN NaN
                ELSE Div(SumRange(s, i - w + 1, i), I(w))
    IN  Map(F, Len(s))

\* Series.rolling(window=w).std(): sample standard deviation (ddof = 1),
\* the square root rounded down to 1/StdGrid.
rolling_std(s, w) ==
    LET sq == LET G(i) == Mul(s[i], s[i]) IN Map(G, Len(s))
        F(i) ==
            IF i < w THEN NaN
            ELSE LET sm == SumRange(s, i - w + 1, i)
                     s2 == SumRange(sq, i - w + 1, i)
                     var == Div(Sub(s2, Div(Mul(sm, sm), I(w))), I(w - 1))
                 IN  IF ~IsNum(var) THEN NaN
                     ELSE Q(ISqrt((var[1] * StdGrid * StdGrid) \div var[2]),
                            StdGrid)
    IN  Map(F, SameLen(s, sq))

\* A finite cell rounded down to the grid, as an integer count of 1/FloatGrid.
ToGrid(a) ==
    (a[1] \div a[2]) * FloatGrid + ((a[1] % a[2]) * FloatGrid) \div a[2]

\* Series.ewm(span=span, adjust=False).mean(): y1 = x1,
\* y[i] = (1 - alpha) * y[i-1] + alpha * x[i] with alpha = 2 / (span + 1).
ewm_mean(s, span) ==
    LET F(acc, i) ==
            IF i = 1 THEN Q(ToGrid(s[1]), FloatGrid)
            ELSE Q((2 * ToGrid(s[i]) + (span - 1) * ToGrid(acc[i - 1]))
                       \div (span + 1), FloatGrid)
    IN  Scan(F, Len(s))

\* Floating point: a finite value is kept to MantissaBits significant
\* bits, rounded to the nearest such value, ties to the even one.
MantissaBits == 8

RECURSIVE Pow2(_)
Pow2(k) == IF k = 0 THEN 1 ELSE 2 * Pow2(k - 1)

\* The unit in the last place of a > 0: the power of two u with
\* 2^(MantissaBits-1) <= a / u < 2^MantissaBits, searched from u.
RECURSIVE Ulp(_, _)
Ulp(a, u) ==
    IF Le(I(Pow2(MantissaBits)), Div(a, u)) THEN Ulp(a, Mul(u, I(2)))
    ELSE IF Lt(Div(a, u), I(Pow2(MantissaBits - 1))) THEN Ulp(a, Div(u, I(2)))
    ELSE u

\* The integer nearest to c >= 0, the even one on a tie.
RoundHalfEven(c) ==
    IF 2 * (c[1] % c[2]) > c[2]
          \/ (2 * (c[1] % c[2]) = c[2] /\ (c[1] \div c[2]) % 2 = 1)
    THEN c[1] \div c[2] + 1
    ELSE c[1] \div c[2]

RoundTo(a, u) == Mul(I(RoundHalfEven(Div(a, u))), u)

\* The float nearest to a.
Float(a) ==
    IF ~IsNum(a) \/ a[1] = 0 THEN a
    ELSE IF a[1] < 0 THEN Neg(RoundTo(Neg(a), Ulp(Neg(a), I(1))))
    ELSE RoundTo(a, Ulp(a, I(1)))

float_series(s) == LET F(i) == Float(s[i]) IN Map(F, Len(s))

SeriesAdd(a, b) == LET F(i) == Add(a[i], b[i]) IN Map(F, SameLen(a, b))
SeriesSub(a, b) == LET F(i) == Sub(a[i], b[i]) IN Map(F, SameLen(a, b))
SeriesMul(a, b) == LET F(i) == Mul(a[i], b[i]) IN Map(F, SameLen(a, b))
SeriesDiv(a, b) == LET F(i) == Div(a[i], b[i]) IN Map(F, SameLen(a, b))
SeriesScale(k, a) == LET F(i) == Mul(I(k), a[i]) IN Map(F, Len(a))

\* Series.cumprod(): NaN rows stay NaN and are skipped by the product.
cumprod(s) ==
    LET run == LET P(acc, i) ==
                       LET before == IF i = 1 THEN I(1) ELSE acc[i - 1]
                       IN  IF IsNaN(s[i]) THEN before ELSE Mul(before, s[i])
               IN  Scan(P, Len(s))
        F(i) == IF IsNaN(s[i]) THEN NaN ELSE run[i]
    IN  Map(F, SameLen(s, run))

\* Series.expanding().max(): the running maximum (min_periods = 1).
expanding_max(s) ==
    LET F(acc, i) ==
            IF i = 1 THEN s[1]
            ELSE IF IsNaN(s[i]) THEN acc[i - 1]
            ELSE IF IsNaN(acc[i - 1]) \/ Gt(s[i], acc[i - 1]) THEN s[i]
            ELSE acc[i - 1]
    IN  Scan(F, Len(s))

----------------------------------------------------------------------------
(* DataFrames: an index (the bar numbers of the fetched series) and the   *)
(* columns in their order, each a pair <<name, series>>                    *)

DataFrame(index, cols) == [index |-> index, cols |-> cols]
columns(df) == {df.cols[k][1] : k \in 1..Len(df.cols)}
nrows(df) == Len(df.index)
empty(df) == nrows(df) = 0

\* df[c]
col(df, c) ==
    df.cols[CHOOSE k \in 1..Len(df.cols) : df.cols[k][1] = c][2]

RECURSIVE KeepRows(_, _, _)
KeepRows(keep(_), lo, hi) ==
    IF lo > hi THEN <<>>
    ELSE IF lo = hi THEN (IF keep(lo) THEN <<lo>> ELSE <<>>)
    ELSE LET mid == (lo + hi) \div 2
         IN  KeepRows(keep, lo, mid) \o KeepRows(keep, mid + 1, hi)

\* The elements of s at the positions rs, in order.
take_series(s, rs) == LET F(j) == s[rs[j]] IN Map(F, Len(rs))

\* df[c] = s: the column is replaced when it is there, added last otherwise.
assign(df, c, s) ==
    IF c \in columns(df)
    THEN LET F(k) == IF df.cols[k][1] = c THEN <<c, s>> ELSE df.cols[k]
         IN  DataFrame(df.index, Map(F, Len(df.cols)))
    ELSE DataFrame(df.index, Append(df.cols, <<c, s>>))

\* df[c1] = s1; df[c2] = s2; ... for the pairs <<c, s>> of ps, whose names
\* differ from one another.
assign_all(df, ps) ==
    LET new(j) == ps[j][1] \notin columns(df)
        F(k) ==
            IF \E j \in 1..Len(ps) : ps[j][1] = df.cols[k][1]
            THEN ps[CHOOSE j \in 1..Len(ps) : ps[j][1] = df.cols[k][1]]
            ELSE df.cols[k]
    IN  DataFrame(df.index,
                  Map(F, Len(df.cols))
                      \o take_series(ps, KeepRows(new, 1, Len(ps))))

\* The rows of df at the positions rs (increasing), in order.
take(df, rs) ==
    LET C(k) == <<df.cols[k][1], take_series(df.cols[k][2], rs)>>
    IN  DataFrame(take_series(df.index, rs), Map(C, Len(df.cols)))

\* DataFrame.dropna(): the rows without a NaN in any column (inf is kept).
dropna(df) ==
    LET keep(i) == \A k \in 1..Len(df.cols) : ~IsNaN(df.cols[k][2][i])
    IN  take(df, KeepRows(keep, 1, nrows(df)))

----------------------------------------------------------------------------
(* calculate_technical_indicators (src/app.py, lines 64-88) *)

RSI_WINDOW == 14
MACD_FAST == 12
MACD_SLOW == 26
MACD_SIGNAL == 9
BB_WINDOW == 20

\* rsi_series dividing by the mean loss as it is, zero included.
rsi_series_zero_loss(close) ==
    LET delta == diff(close)
        rs == SeriesDiv(rolling_mean(where_gt0(delta), RSI_WINDOW),
                        rolling_mean(neg_where_lt0(delta), RSI_WINDOW))
        F(i) == Sub(I(100), Div(I(100), Add(I(1), rs[i])))
    IN  Map(F, Len(rs))

\* Lines 69-73: the RSI column of a close series.
rsi_series(close) ==
    LET delta == diff(close)
        gain  == rolling_mean(where_gt0(delta), RSI_WINDOW)
        loss  == rolling_mean(neg_where_lt0(delta), RSI_WINDOW)
        rs    == SeriesDiv(gain, replace_0_nan(loss))
        F(i) == Sub(I(100), Div(I(100), Add(I(1), rs[i])))
    IN  Map(F, Len(rs))

\* Lines 76-78: MACD = EMA(12) - EMA(26).
macd_series(close) ==
    SeriesSub(ewm_mean(close, MACD_FAST), ewm_mean(close, MACD_SLOW))

\* macd_signal_series left undefined until it has MACD_SIGNAL bars.
macd_signal_series_warmup(macd) ==
    LET e == ewm_mean(macd, MACD_SIGNAL)
        F(i) == IF i < MACD_SIGNAL THEN NaN ELSE e[i]
    IN  Map(F, Len(macd))

\* Line 79: the signal line, EMA(9) of MACD.
macd_signal_series(macd) == ewm_mean(macd, MACD_SIGNAL)

\* Lines 83-84: the 20-bar mean and standard deviation, as floats.
bollinger_middle(close) == float_series(rolling_mean(close, BB_WINDOW))
bollinger_std(close) == float_series(rolling_std(close, BB_WINDOW))

\* Line 85: BB_Middle + (2 * std); doubling a float is exact, the sum is
\* rounded.
bollinger_upper(middle, std) ==
    float_series(SeriesAdd(middle, SeriesScale(2, std)))

\* bollinger_lower one standard deviation below the middle.
bollinger_lower_one_sigma(middle, std) ==
    float_series(SeriesSub(middle, std))

\* Line 86: BB_Middle - (2 * std).
bollinger_lower(middle, std) ==
    float_series(SeriesSub(middle, SeriesScale(2, std)))

\* calculate_technical_indicators dropping the rows where an indicator is
\* undefined before it returns.
calculate_technical_indicators_trimmed(df, close_col) ==
    LET close  == col(df, close_col)
        macd   == macd_series(close)
        signal == macd_signal_series(macd)
        middle == bollinger_middle(close)
        std    == bollinger_std(close)
    IN  dropna(assign_all(df,
            << <<"RSI", rsi_series(close)>>,
               <<"MACD", macd>>,
               <<"MACD_Signal", signal>>,
               <<"MACD_Hist", SeriesSub(macd, signal)>>,
               <<"BB_Middle", middle>>,
               <<"BB_Upper", bollinger_upper(middle, std)>>,
               <<"BB_Lower", bollinger_lower(middle, std)>> >>))

calculate_technical_indicators(df, close_col) ==
    LET close  == col(df, close_col)
        macd   == macd_series(close)
        signal == macd_signal_series(macd)
        middle == bollinger_middle(close)
        std    == bollinger_std(close)
    IN  assign_all(df,
            << <<"RSI", rsi_series(close)>>,
               <<"MACD", macd>>,
               <<"MACD_Signal", signal>>,
               <<"MACD_Hist", SeriesSub(macd, signal)>>,
               <<"BB_Middle", middle>>,
               <<"BB_Upper", bollinger_upper(middle, std)>>,
               <<"BB_Lower", bollinger_lower(middle, std)>> >>)

\* An uncaught KeyError: df[c] for a column c the table does not have.
KeyError == [shown |-> "KeyError"]

\* A call of calculate_technical_indicators: line 69 reads df_copy[close_col]
\* and raises when the column is absent; nothing else in the function
\* looks at the number of rows.
call_calculate_technical_indicators(df, close_col) ==
    IF close_col \notin columns(df) THEN KeyError
    ELSE [shown |-> "indicators",
          frame |-> calculate_technical_indicators(df, close_col)]

----------------------------------------------------------------------------
(* The Run Backtest handler (src/app.py, lines 1057-1246) *)

Strategies ==
    {"SMA Crossover (20/50)", "SMA Crossover (50/200)",
     "RSI Mean Reversion", "MACD Crossover"}

SMA_20 == 20
SMA_50 == 50
SMA_200 == 200
RSI_OVERSOLD == 30
RSI_OVERBOUGHT == 70
TRADING_DAYS == 252

\* bt_data['Signal'] = 0; bt_data.loc[long, 'Signal'] = 1;
\* bt_data.loc[short, 'Signal'] = -1 (the later assignment wins).
signal_column(n, long(_), short(_)) ==
    LET F(i) == IF short(i) THEN I(-1) ELSE IF long(i) THEN I(1) ELSE I(0)
    IN  Map(F, n)

\* sma_crossover going long wherever the fast average is not at or below
\* the slow one, undefined averages included.
sma_crossover_not_below(bt, close_col, fast, slow) ==
    LET f  == rolling_mean(col(bt, close_col), fast)
        sl == rolling_mean(col(bt, close_col), slow)
        long(i) == ~Le(f[i], sl[i])
        short(i) == FALSE
        b  == assign_all(bt, << <<"SMA_Fast", f>>, <<"SMA_Slow", sl>> >>)
    IN  assign(b, "Signal", signal_column(nrows(b), long, short))

\* Lines 1061-1071: the two SMA Crossover branches.
sma_crossover(bt, close_col, fast, slow) ==
    LET f  == rolling_mean(col(bt, close_col), fast)
        sl == rolling_mean(col(bt, close_col), slow)
        long(i) == Gt(f[i], sl[i])
        short(i) == FALSE
        b  == assign_all(bt, << <<"SMA_Fast", f>>, <<"SMA_Slow", sl>> >>)
    IN  assign(b, "Signal", signal_column(nrows(b), long, short))

\* rsi_mean_reversion holding the last non-zero signal while RSI stays
\* between the two thresholds.
RECURSIVE held_signal(_, _)
held_signal(rsi, i) ==
    IF i = 0 THEN I(0)
    ELSE IF Gt(rsi[i], I(RSI_OVERBOUGHT)) THEN I(-1)
    ELSE IF Lt(rsi[i], I(RSI_OVERSOLD)) THEN I(1)
    ELSE held_signal(rsi, i - 1)

rsi_mean_reversion_held(bt, close_col) ==
    LET b == IF "RSI" \notin columns(bt)
             THEN assign(bt, "RSI", rsi_series(col(bt, close_col)))
             ELSE bt
        F(i) == held_signal(col(b, "RSI"), i)
    IN  assign(b, "Signal", Map(F, nrows(b)))

\* Lines 1073-1083: RSI Mean Reversion; RSI is computed when it is missing.
rsi_mean_reversion(bt, close_col) ==
    LET b == IF "RSI" \notin columns(bt)
             THEN assign(bt, "RSI", rsi_series(col(bt, close_col)))
             ELSE bt
        long(i) == Lt(col(b, "RSI")[i], I(RSI_OVERSOLD))
        short(i) == Gt(col(b, "RSI")[i], I(RSI_OVERBOUGHT))
    IN  assign(b, "Signal", signal_column(nrows(b), long, short))

\* macd_crossover going short where MACD is below its signal line.
macd_crossover_short(bt, close_col) ==
    LET macd == macd_series(col(bt, close_col))
        b == IF "MACD" \notin columns(bt)
             THEN assign_all(bt, << <<"MACD", macd>>,
                                    <<"MACD_Signal", macd_signal_series(macd)>> >>)
             ELSE bt
        long(i) == Gt(col(b, "MACD")[i], col(b, "MACD_Signal")[i])
        short(i) == Lt(col(b, "MACD")[i], col(b, "MACD_Signal")[i])
    IN  assign(b, "Signal", signal_column(nrows(b), long, short))

\* Lines 1085-1093: MACD Crossover; MACD and its signal line are computed
\* when MACD is missing.
macd_crossover(bt, close_col) ==
    LET macd == macd_series(col(bt, close_col))
        b == IF "MACD" \notin columns(bt)
             THEN assign_all(bt, << <<"MACD", macd>>,
                                    <<"MACD_Signal", macd_signal_series(macd)>> >>)
             ELSE bt
        long(i) == Gt(col(b, "MACD")[i], col(b, "MACD_Signal")[i])
        short(i) == FALSE
    IN  assign(b, "Signal", signal_column(nrows(b), long, short))

strategy_signals(bt, close_col, strategy_type) ==
    CASE strategy_type = "SMA Crossover (20/50)" ->
             sma_crossover(bt, close_col, SMA_20, SMA_50)
      [] strategy_type = "SMA Crossover (50/200)" ->
             sma_crossover(bt, close_col, SMA_50, SMA_200)
      [] strategy_type = "RSI Mean Reversion" ->
             rsi_mean_reversion(bt, close_col)
      [] strategy_type = "MACD Crossover" ->
             macd_crossover(bt, close_col)

\* strategy_returns without the one-bar lag.
strategy_returns_unlagged(signal, returns) == SeriesMul(signal, returns)

\* Line 1096: bt_data['Signal'].shift(1) * bt_data['Returns'].
strategy_returns(signal, returns) == SeriesMul(shift(signal), returns)

\* Lines 1098-1099: (1 + returns).cumprod().
cumulative(returns) ==
    LET F(i) == Add(I(1), returns[i])
    IN  cumprod(Map(F, Len(returns)))

\* Lines 1095-1099: the four return columns, added before any row is dropped.
with_returns(bt, close_col) ==
    LET returns == pct_change(col(bt, close_col))
        strat   == strategy_returns(col(bt, "Signal"), returns)
    IN  assign_all(bt,
            << <<"Returns", returns>>,
               <<"Strategy_Returns", strat>>,
               <<"Cumulative_Market", cumulative(returns)>>,
               <<"Cumulative_Strategy", cumulative(strat)>> >>)

\* Series.mean() of a series without NaN.
mean(s) == Div(SumRange(s, 1, Len(s)), I(Len(s)))

\* Series.std() squared: the sample variance (ddof = 1); NaN for one row.
variance(s) ==
    LET n  == Len(s)
        sm == SumRange(s, 1, n)
        sq == LET G(i) == Mul(s[i], s[i]) IN Map(G, n)
    IN  Div(Sub(Mul(I(n), SumRange(sq, 1, n)), Mul(sm, sm)), I(n * (n - 1)))

\* sharpe without the test of the standard deviation.
sharpe_unguarded(returns) ==
    Mul(I(Sign(mean(returns)[1]) * TRADING_DAYS),
        Div(Mul(mean(returns), mean(returns)), variance(returns)))

\* Lines 1110-1111: (mean / std) * sqrt(252) if std != 0 else 0.
\* The value x of the ratio is kept as sign(x) * x^2, which is rational
\* (x -> sign(x) * x^2 is one-to-one and keeps 0, the sign, NaN and inf).
sharpe(returns) ==
    LET m == mean(returns)
        v == variance(returns)
    IN  IF IsZero(v) THEN I(0)
        ELSE Mul(I(Sign(m[1]) * TRADING_DAYS), Div(Mul(m, m), v))

\* Series.min(): NaN entries are skipped; NaN when nothing is left.
RECURSIVE SeriesMinFrom(_, _, _)
SeriesMinFrom(s, lo, hi) ==
    IF lo > hi THEN NaN
    ELSE IF lo = hi THEN s[lo]
    ELSE LET mid == (lo + hi) \div 2
             a == SeriesMinFrom(s, lo, mid)
             b == SeriesMinFrom(s, mid + 1, hi)
         IN  IF IsNaN(a) THEN b ELSE IF IsNaN(b) THEN a
             ELSE IF Lt(b, a) THEN b ELSE a

series_min(s) == SeriesMinFrom(s, 1, Len(s))

\* Lines 1113-1119: ((cumulative - running_max) / running_max).min() * 100.
max_drawdown(cum) ==
    LET running_max == expanding_max(cum)
    IN  Mul(series_min(SeriesDiv(SeriesSub(cum, running_max), running_max)),
            I(100))

\* signal_markers marking every rise (d = 1) or fall (d = -1) of Signal,
\* whatever its size.
signal_markers_any_size(bt, d) ==
    LET ds == diff(col(bt, "Signal"))
        keep(i) == IsNum(ds[i]) /\ Sign(ds[i][1]) = d
    IN  take(bt, KeepRows(keep, 1, nrows(bt))).index

\* Lines 1212 and 1221: the dates of the rows of bt_data (after dropna)
\* whose Signal.diff() equals d.
signal_markers(bt, d) ==
    LET ds == diff(col(bt, "Signal"))
        keep(i) == ds[i] = I(d)
    IN  take(bt, KeepRows(keep, 1, nrows(bt))).index

NoStats == [none |-> TRUE]

\* Lines 1104-1119: the figures of the results panel.
summary_statistics(bt, initial_capital) ==
    LET n == nrows(bt)
        cm == col(bt, "Cumulative_Market")
        cs == col(bt, "Cumulative_Strategy")
    IN  [total_return_market    |-> Mul(Sub(cm[n], I(1)), I(100)),
         total_return_strategy  |-> Mul(Sub(cs[n], I(1)), I(100)),
         final_capital_market   |-> Mul(I(initial_capital), cm[n]),
         final_capital_strategy |-> Mul(I(initial_capital), cs[n]),
         sharpe_market          |-> sharpe(col(bt, "Returns")),
         sharpe_strategy        |-> sharpe(col(bt, "Strategy_Returns")),
         drawdown_market        |-> max_drawdown(cm),
         drawdown_strategy      |-> max_drawdown(cs)]

\* has_results asking for a second row.
has_results_two_rows(bt_data) == nrows(bt_data) > 1

\* Line 1103: if not bt_data.empty.
has_results(bt_data) == ~empty(bt_data)

\* Lines 1104-1246: what the handler leaves on the page for the table
\* `frame` of line 1099 and its rows `bt_data` kept by line 1101.
backtest_report(frame, bt_data, strategy_type, initial_capital) ==
    IF has_results(bt_data)
    THEN [shown |-> "results",
          strategy_type |-> strategy_type,
          initial_capital |-> initial_capital,
          frame |-> frame, bt_data |-> bt_data,
          stats |-> summary_statistics(bt_data, initial_capital),
          equity_strategy |-> SeriesScale(initial_capital,
                                  col(bt_data, "Cumulative_Strategy")),
          equity_market |-> SeriesScale(initial_capital,
                                  col(bt_data, "Cumulative_Market")),
          buy_signals |-> signal_markers(bt_data, 1),
          sell_signals |-> signal_markers(bt_data, -1)]
    ELSE [shown |-> "not_enough_data",
          strategy_type |-> strategy_type,
          initial_capital |-> initial_capital,
          frame |-> frame, bt_data |-> bt_data,
          stats |-> NoStats,
          equity_strategy |-> <<>>, equity_market |-> <<>>,
          buy_signals |-> <<>>, sell_signals |-> <<>>]

\* Line 1101: bt_data = bt_data.dropna().
drop_undefined(frame, strategy_type, initial_capital) ==
    backtest_report(frame, dropna(frame), strategy_type, initial_capital)

\* The column reads of the handler that raise KeyError: bt_data[close_col]
\* in every branch, and bt_data['MACD_Signal'] at line 1093, which is
\* computed at line 1090 only when MACD is missing (line 1086).
handler_raises(data, close_col, strategy_type) ==
    \/ close_col \notin columns(data)
    \/ /\ strategy_type = "MACD Crossover"
       /\ "MACD" \in columns(data)
       /\ "MACD_Signal" \notin columns(data)

\* What an uncaught exception leaves of the run: the traceback, no panel.
uncaught(data, strategy_type, initial_capital) ==
    [shown |-> "KeyError",
     strategy_type |-> strategy_type,
     initial_capital |-> initial_capital,
     frame |-> data, bt_data |-> data,
     stats |-> NoStats,
     equity_strategy |-> <<>>, equity_market |-> <<>>,
     buy_signals |-> <<>>, sell_signals |-> <<>>]

\* The whole handler on the page's table `data`.
run_backtest(data, close_col, strategy_type, initial_capital) ==
    IF handler_raises(data, close_col, strategy_type)
    THEN uncaught(data, strategy_type, initial_capital)
    ELSE drop_undefined(with_returns(strategy_signals(data, close_col,
                                                      strategy_type),
                                     close_col),
                        strategy_type, initial_capital)

----------------------------------------------------------------------------
(* The downloads the model feeds to the Fetch Data button: a history      *)
(* followed by up to MaxTail closes taken from Prices, and three fixed     *)
(* series.                                                                 *)

Prices == {1, 3, 7}
MaxTail == 2

Tails == UNION {[1..n -> Prices] : n \in 1..MaxTail}

\* Closes of 3 with a dip to 1 every 13 bars.
Dips(n) == [i \in 1..n |-> IF i % 13 = 6 THEN 1 ELSE 3]
\* 13 bars: 1, then 3 with one dip to 1 at bar 6.
Wave13 == [i \in 1..13 |-> IF i \in {1, 6} THEN 1 ELSE 3]
\* 48 bars: flat at 1 for 45 bars, then 4, 3, 7.
Spike48 ==
    [i \in 1..48 |-> IF i <= 45 THEN 1 ELSE IF i = 46 THEN 4
                     ELSE IF i = 47 THEN 3 ELSE 7]
\* 15 bars: a rise from 1 to 7 at bar 2 and a slip to 6 at bar 7; the rise
\* leaves the 14-bar window at bar 16.
Swing15 == [i \in 1..15 |-> IF i = 1 THEN 1 ELSE IF i <= 6 THEN 7 ELSE 6]
\* close = 100 + t over 300 bars; a constant close over 100 bars.
Ramp300 == [t \in 1..300 |-> 100 + t]
Flat100 == [t \in 1..100 |-> 100]
\* 60 bars: closes of 3 with dips to 1 at bars 6, 19, 45 and 58, so that no
\* close falls over the 25 bars in between.
Lull60 == [i \in 1..60 |-> IF i \in {6, 19, 45, 58} THEN 1 ELSE 3]

Histories == {<<>>, Wave13, Swing15, Spike48, Dips(68)}
Downloads ==
    {h \o tl : h \in Histories, tl \in Tails}
        \cup {<<>> \o Ramp300, <<>> \o Flat100, <<>> \o Dips(220),
              <<>> \o Lull60}

\* Lines 27-33: the table yf.download returns for these closes, one row per
\* bar, the bar number standing for its date.
price_table(closes) ==
    LET Bar(i) == i
        Close(i) == I(closes[i])
    IN  DataFrame(Map(Bar, Len(closes)),
                  << <<"Close", Map(Close, Len(closes))>> >>)

None == [none |-> TRUE]

\* Lines 20-51: what fetch_stock_data returns, (df, None) or (None, error).
FetchErrors == {"rate_limit", "error"}
FetchOutcomes ==
    {[df |-> price_table(c), error |-> ""] : c \in Downloads \cup {<<>>}}
        \cup {[df |-> None, error |-> e] : e \in FetchErrors}

\* Line 1055: the Initial Capital input.
Capitals == {1000, 10000}

\* Line 607: close_col = 'Close' if 'Close' in data.columns.
close_col == "Close"

\* Lines 610-620: the table the main content works on, and whether the
\* page stops at the empty-data warning.
MIN_ROWS == 50
page(data) == [data |-> data, stopped |-> empty(data)]
main_content(session_data) ==
    page(IF nrows(session_data) >= MIN_ROWS
         THEN dropna(calculate_technical_indicators(session_data, close_col))
         ELSE session_data)

\* calculate_technical_indicators writing its columns to df itself.
df_after_alias(df, df_copy) == df_copy

\* Line 66: df_copy = df.copy().  The columns of lines 73-86 are assigned
\* to df_copy; the caller's df is after the call what it was before.
df_after_calculate(df, df_copy) == df

\* The handler writing its columns to data itself.
data_after_alias(data, bt_data) == bt_data

\* Line 1059: bt_data = data.copy().  The columns of lines 1062-1099 are
\* assigned to bt_data; data is after the run what it was before.
data_after_backtest(data, bt_data) == data

\* st.session_state['stock_data'] after a script run whose handler wrote
\* the table `frame`.  Line 603 binds data to the session's table; line 614
\* hands it to calculate_technical_indicators and rebinds data to the new
\* table dropna returns, so that the handler's data is the session's table
\* itself only for a table of fewer than MIN_ROWS rows.
session_after(session_data, frame) ==
    IF nrows(session_data) >= MIN_ROWS
    THEN df_after_calculate(session_data,
             calculate_technical_indicators(session_data, close_col))
    ELSE data_after_backtest(session_data, frame)

----------------------------------------------------------------------------
(* The session: st.session_state['stock_data'] and ['ticker_info'], the    *)
(* ticker text input, the entries of st.cache_data for fetch_stock_data,   *)
(* the outcome the last script run showed for the Fetch Data button, and   *)
(* what the last run left in the backtest tab.                             *)

VARIABLES stock_data, ticker_info, ticker, cache, fetch_status, report

vars == <<stock_data, ticker_info, ticker, cache, fetch_status, report>>

\* Lines 524-529: the symbols typed into the ticker input, upper-cased.
DEFAULT_TICKER == "AAPL"
Tickers == {"AAPL", "MSFT"}

\* Lines 54-61: fetch_ticker_info returns the info dict, or {} when the
\* lookup raised.  A dict is the set of its items.
dict(items) == [items |-> items]
TickerInfos(symbol) == {dict({<<"symbol", symbol>>}), dict({})}

\* Line 20: no entry of st.cache_data for any ticker.
NoEntries == [t \in Tickers |-> None]

\* Lines 501-507, and the widgets' defaults.
Init ==
    /\ stock_data = None
    /\ ticker_info = None
    /\ ticker = DEFAULT_TICKER
    /\ cache = NoEntries
    /\ fetch_status = "idle"
    /\ report = None

\* The handler storing whatever table the call returned.
fetch_handler_stores_empty(out, info) ==
    /\ IF out.error # ""
       THEN fetch_status' = "error" /\ UNCHANGED <<stock_data, ticker_info>>
       ELSE /\ stock_data' = out.df
            /\ ticker_info' = info
            /\ fetch_status' = IF empty(out.df) THEN "no_data" ELSE "loaded"
    /\ report' = None

\* Lines 581-592: what the Fetch Data handler does with the pair
\* fetch_stock_data returned and with the info fetch_ticker_info would
\* return.  The script run does not run a backtest, so the backtest tab
\* shows no results afterwards.
fetch_handler(out, info) ==
    /\ IF out.error # ""
       THEN fetch_status' = "error" /\ UNCHANGED <<stock_data, ticker_info>>
       ELSE IF empty(out.df)
       THEN fetch_status' = "no_data" /\ UNCHANGED <<stock_data, ticker_info>>
       ELSE /\ stock_data' = out.df
            /\ ticker_info' = info
            /\ fetch_status' = "loaded"
    /\ report' = None

\* Lines 575-592: the Fetch Data button, pressed for a date range that has
\* no entry in the cache (a range not asked for within the last hour, whose
\* own entry has expired by the next press), with the ticker input left at
\* its default and a ticker lookup that succeeds.
FetchData ==
    /\ \E out \in FetchOutcomes :
           fetch_handler(out, dict({<<"symbol", ticker>>}))
    /\ UNCHANGED <<ticker, cache>>

\* Lines 602-620 and 1057-1246: the Run Backtest button, reachable when the
\* main content is drawn and did not stop.
RunBacktest ==
    /\ stock_data # None
    /\ \E shown \in {main_content(stock_data)} :
           /\ ~shown.stopped
           /\ \E strategy_type \in Strategies, initial_capital \in Capitals :
                  report' = run_backtest(shown.data, close_col, strategy_type,
                                         initial_capital)
    /\ fetch_status' = "idle"
    /\ stock_data' = session_after(stock_data, report'.frame)
    /\ UNCHANGED <<ticker_info, ticker, cache>>

Next == FetchData \/ RunBacktest

Spec == Init /\ [][Next]_vars

----------------------------------------------------------------------------
(* The two components applied to tables of any shape.  Here stock_data is *)
(* the table handed to the component, fetch_status names the component     *)
(* that was applied and report is its outcome.                             *)

MaxRows == 30

\* The first n closes of a series.
Prefix(closes, n) == <<>> \o [i \in 1..n |-> closes[i]]

\* Tables of 0..MaxRows rows, and of the lengths around the windows of
\* 50 and 200 bars.
CallSeries ==
    {Prefix(Dips(68), n) : n \in 0..MaxRows}
        \cup {Prefix(Spike48, n) : n \in {46, 47, 48}}
        \cup {Prefix(Dips(68), n) : n \in {49, 50, 51, 68}}

\* The columns of df whose names are in cs.
select(df, cs) ==
    LET keep(k) == df.cols[k][1] \in cs
    IN  DataFrame(df.index, take_series(df.cols, KeepRows(keep, 1, Len(df.cols))))

\* The column c of df under the name d.
renamed(df, c, d) ==
    LET F(k) == IF df.cols[k][1] = c THEN <<d, df.cols[k][2]>> ELSE df.cols[k]
    IN  DataFrame(df.index, Map(F, Len(df.cols)))

CallTables ==
    {price_table(c) : c \in CallSeries}
        \cup {renamed(price_table(Prefix(Dips(68), n)), "Close", "Close_AAPL") :
                  n \in {0, 1, 20}}

\* Tables that hold some of the indicator columns the strategies read.
StrategyColumns == {"RSI", "MACD", "MACD_Signal"}
ComboSeries == {Prefix(Dips(68), 16), <<>> \o Spike48}
ComboTables ==
    {select(calculate_technical_indicators(price_table(c), close_col),
            {close_col} \cup cs) :
         c \in ComboSeries, cs \in SUBSET StrategyColumns}

InitCalls ==
    /\ stock_data \in CallTables \cup ComboTables
    /\ ticker_info = None
    /\ ticker = DEFAULT_TICKER
    /\ cache = NoEntries
    /\ fetch_status = "idle"
    /\ report = None

CallIndicators ==
    /\ report = None
    /\ report' = call_calculate_technical_indicators(stock_data, close_col)
    /\ fetch_status' = "calculate_technical_indicators"
    /\ UNCHANGED <<stock_data, ticker_info, ticker, cache>>

\* The handler is reached on a page that did not stop at lines 618-620
\* and read the last close at line 621.
CallBacktest ==
    /\ report = None
    /\ close_col \in columns(stock_data)
    /\ ~empty(stock_data)
    /\ \E strategy_type \in Strategies, initial_capital \in Capitals :
           report' = run_backtest(stock_data, close_col, strategy_type,
                                  initial_capital)
    /\ fetch_status' = "run_backtest"
    /\ UNCHANGED <<stock_data, ticker_info, ticker, cache>>

NextCalls == CallIndicators \/ CallBacktest

SpecCalls == InitCalls /\ [][NextCalls]_vars

----------------------------------------------------------------------------
(* fetch_stock_data (src/app.py, lines 20-51), one download attempt per  *)
(* step.  Here report is the frame of the call: max_retries, the loop      *)
(* variable attempt, the messages of the exceptions raised so far, and the *)
(* pair (df, error) once it returned; fetch_status is "loop" or            *)
(* "returned".  A message is the sequence of its words.                    *)

MAX_RETRIES == 3

\* Messages of the exceptions a download raises.
ExceptionMessages ==
    {<<"Too", "Many", "Requests", "Rate", "limited">>, <<"HTTP", "429">>,
     <<"rate", "limit">>, <<"timed", "out">>, <<>>}

Contains(msg, word) == \E i \in 1..Len(msg) : msg[i] = word

\* is_rate_limit retrying whatever was raised.
is_rate_limit_any(error_msg) == TRUE

\* Line 43: "Rate" in error_msg or "429" in error_msg.
is_rate_limit(error_msg) ==
    Contains(error_msg, "Rate") \/ Contains(error_msg, "429")

\* Lines 47 and 49 and 51: the messages returned.
RateLimitMessage == <<"Yahoo", "Finance", "rate", "limit", "reached">>
ErrorMessage(error_msg) == <<"Error:">> \o error_msg
FailedMessage == <<"Failed", "to", "fetch", "data">>

\* The error of a return (df, None).
NoError == <<>>

FetchedTables == {price_table(c) : c \in Downloads \cup {<<>>}}

frame_of_call(max_retries, attempt, raised, df, error) ==
    [max_retries |-> max_retries, attempt |-> attempt, raised |-> raised,
     df |-> df, error |-> error]

InitFetch ==
    /\ stock_data = None
    /\ ticker_info = None
    /\ ticker = DEFAULT_TICKER
    /\ cache = NoEntries
    /\ fetch_status = "loop"
    /\ \E max_retries \in 0..MAX_RETRIES :
           report = frame_of_call(max_retries, 0, <<>>, None, NoError)

\* Lines 24-39: the download of this attempt succeeds.
AttemptReturnsTable ==
    /\ fetch_status = "loop"
    /\ report.attempt < report.max_retries
    /\ \E df \in FetchedTables :
           report' = [report EXCEPT !.df = df]
    /\ fetch_status' = "returned"
    /\ UNCHANGED <<stock_data, ticker_info, ticker, cache>>

\* Lines 41-45: a rate-limit error before the last attempt; the loop goes
\* on, sleeping 2 ** attempt seconds first (line 26).
AttemptRetried ==
    /\ fetch_status = "loop"
    /\ report.attempt < report.max_retries
    /\ \E error_msg \in ExceptionMessages :
           /\ is_rate_limit(error_msg)
           /\ report.attempt < report.max_retries - 1
           /\ report' = [report EXCEPT !.raised = Append(@, error_msg),
                                        !.attempt = @ + 1]
    /\ UNCHANGED <<stock_data, ticker_info, ticker, cache, fetch_status>>

\* Lines 46-47: a rate-limit error at the last attempt.
AttemptRateLimited ==
    /\ fetch_status = "loop"
    /\ report.attempt < report.max_retries
    /\ \E error_msg \in ExceptionMessages :
           /\ is_rate_limit(error_msg)
           /\ ~(report.attempt < report.max_retries - 1)
           /\ report' = [report EXCEPT !.raised = Append(@, error_msg),
                                        !.error = RateLimitMessage]
    /\ fetch_status' = "returned"
    /\ UNCHANGED <<stock_data, ticker_info, ticker, cache>>

\* Lines 48-49: any other error.
AttemptFails ==
    /\ fetch_status = "loop"
    /\ report.attempt < report.max_retries
    /\ \E error_msg \in ExceptionMessages :
           /\ ~is_rate_limit(error_msg)
           /\ report' = [report EXCEPT !.raised = Append(@, error_msg),
                                        !.error = ErrorMessage(error_msg)]
    /\ fetch_status' = "returned"
    /\ UNCHANGED <<stock_data, ticker_info, ticker, cache>>

\* Line 51: the loop ended without a return.
LoopExhausted ==
    /\ fetch_status = "loop"
    /\ ~(report.attempt < report.max_retries)
    /\ report' = [report EXCEPT !.error = FailedMessage]
    /\ fetch_status' = "returned"
    /\ UNCHANGED <<stock_data, ticker_info, ticker, cache>>

NextFetch ==
    \/ AttemptReturnsTable
    \/ AttemptRetried
    \/ AttemptRateLimited
    \/ AttemptFails
    \/ LoopExhausted

\* Every step of the function is taken in the end: a download returns or
\* raises, and time.sleep returns.
SpecFetch == InitFetch /\ [][NextFetch]_vars /\ WF_vars(NextFetch)

----------------------------------------------------------------------------
(* The sidebar and the head of the main content (src/app.py, lines        *)
(* 20-61 and 524-622): ticker edits and Fetch Data presses within one day, *)
(* so that the date range of every call is the same and the key of a       *)
(* cache entry is the ticker.  The backtest tab is left alone.             *)

\* The columns yf.download returns with auto_adjust=True.
Fields == <<"Close", "High", "Low", "Open", "Volume">>

\* Closes of the tables downloaded here.
SessionCloses == {<<3>>, <<1, 3>>}

\* Lines 28-34: the table yf.download returns for a symbol, with plain
\* column names or with a MultiIndex of (field, symbol) pairs.
yf_download(symbol, closes, multiindex) ==
    LET Bar(i) == i
        Value(i) == I(closes[i])
        Column(k) == <<IF multiindex THEN <<Fields[k], symbol>> ELSE Fields[k],
                       Map(Value, Len(closes))>>
    IN  [multiindex |-> multiindex,
         df |-> DataFrame(Map(Bar, Len(closes)), Map(Column, Len(Fields)))]

\* Line 37: '_'.join([str(i) for i in col]).strip().rstrip('_'), for levels
\* without blanks and underscores of their own: the underscores stripped
\* are those joining trailing empty levels.
RECURSIVE rstrip(_)
rstrip(levels) ==
    IF levels # <<>> /\ levels[Len(levels)] = ""
    THEN rstrip(SubSeq(levels, 1, Len(levels) - 1))
    ELSE levels

RECURSIVE join(_)
join(levels) ==
    IF levels = <<>> THEN ""
    ELSE IF Len(levels) = 1 THEN levels[1]
    ELSE levels[1] \o "_" \o join(Tail(levels))

\* Lines 36-37.
flatten_columns(downloaded) ==
    LET df == downloaded.df
        Flat(k) == <<join(rstrip(df.cols[k][1])), df.cols[k][2]>>
    IN  IF downloaded.multiindex
        THEN DataFrame(df.index, Map(Flat, Len(df.cols)))
        ELSE df

\* Lines 20-51: what a call of fetch_stock_data that runs its body returns.
SessionOutcomes(symbol) ==
    {[df |-> flatten_columns(yf_download(symbol, c, m)), error |-> ""] :
         c \in SessionCloses \cup {<<>>}, m \in BOOLEAN}
        \cup {[df |-> None, error |-> e] : e \in FetchErrors}

\* Line 20: st.cache_data returns the stored return of an earlier call with
\* the same arguments and runs the body of the function otherwise.
cached_call(entries, key, outcomes) ==
    IF entries[key] = None THEN outcomes ELSE {entries[key]}

\* Line 20: the return of the call is the entry of its arguments.
cache_after(entries, key, out) == [entries EXCEPT ![key] = out]

\* Lines 607-611: 'Close' if 'Close' in data.columns else f'Close_{ticker}'.
column_name(field, data, symbol) ==
    IF field \in columns(data) THEN field ELSE field \o "_" \o symbol

\* Lines 524-529: another symbol is typed into the ticker input.  The
\* script run this triggers presses no button.
EditTicker ==
    /\ \E symbol \in Tickers \ {ticker} : ticker' = symbol
    /\ fetch_status' = "idle"
    /\ report' = None
    /\ UNCHANGED <<stock_data, ticker_info, cache>>

\* Lines 575-592: the Fetch Data button.  The entries of fetch_ticker_info
\* are not tracked.
PressFetch ==
    /\ \E out \in cached_call(cache, ticker, SessionOutcomes(ticker)),
          info \in TickerInfos(ticker) :
           /\ fetch_handler(out, info)
           /\ cache' = cache_after(cache, ticker, out)
    /\ UNCHANGED ticker

\* Line 20, ttl=3600: an hour after it was stored an entry is gone.
EntryExpires ==
    /\ \E key \in Tickers :
           /\ cache[key] # None
           /\ cache' = [cache EXCEPT ![key] = None]
    /\ UNCHANGED <<stock_data, ticker_info, ticker, fetch_status, report>>

NextSession == EditTicker \/ PressFetch \/ EntryExpires

SpecSession == Init /\ [][NextSession]_vars

----------------------------------------------------------------------------
(* calculate_technical_indicators as a component *)

IndicatorsCalled == fetch_status = "calculate_technical_indicators"

\* C11: calculate_technical_indicators fails with an error when the table
\* has no close column or has zero rows; it returns no table for such
\* input.
C11_InvalidInputFails ==
    (IndicatorsCalled
         /\ (close_col \notin columns(stock_data) \/ nrows(stock_data) = 0)) =>
        report = KeyError

----------------------------------------------------------------------------
(* Properties of the backtest *)

Reported == report # None
Results == report # None /\ report.shown = "results"

\* The rows of the handed table that the results keep.
Retained(t) ==
    \E k \in 1..nrows(report.bt_data) :
        report.bt_data.index[k] = report.frame.index[t]

\* C1: in every backtest run, for every row t after the first row of the
\* table handed to the handler, Strategy_Returns(t) is Signal(t-1) times
\* Returns(t), with Returns(t) = close(t)/close(t-1) - 1 over the preceding
\* row; and the first row is not among the rows of the results.
C1_LagInvariant ==
    Reported =>
        LET f     == report.frame
            close == col(f, close_col)
            sig   == col(f, "Signal")
            ret   == col(f, "Returns")
            sr    == col(f, "Strategy_Returns")
        IN  /\ \A t \in 2..nrows(f) :
                   /\ ret[t] = Sub(Div(close[t], close[t - 1]), I(1))
                   /\ sr[t] = Mul(sig[t - 1], ret[t])
            /\ nrows(f) >= 1 => ~Retained(1)

\* A retained row whose own signal differs from the non-zero signal of the
\* row before it, on a bar where the price moved.
C1_Witness ==
    /\ Results
    /\ \E t \in 2..nrows(report.frame) :
           /\ Retained(t)
           /\ ~IsZero(col(report.frame, "Signal")[t - 1])
           /\ col(report.frame, "Signal")[t] # col(report.frame, "Signal")[t - 1]
           /\ ~IsZero(col(report.frame, "Returns")[t])

Last(s) == s[Len(s)]

\* C2: the cumulative market and strategy curves of the results are the
\* running products of (1 + return) over the retained rows only, based at
\* 1.0 at the first retained bar, and both total returns are (final
\* cumulative value - 1) * 100 of these products, over the same bars.
C2_CurvesOverRetainedRows ==
    Results =>
        LET bt == report.bt_data
            market   == cumulative(col(bt, "Returns"))
            strategy == cumulative(col(bt, "Strategy_Returns"))
        IN  /\ col(bt, "Cumulative_Market") = market
            /\ col(bt, "Cumulative_Strategy") = strategy
            /\ report.stats.total_return_market
                   = Mul(Sub(Last(market), I(1)), I(100))
            /\ report.stats.total_return_strategy
                   = Mul(Sub(Last(strategy), I(1)), I(100))

\* C3: whenever summary statistics are reported (one retained row or more),
\* each of the eight figures is a defined number.
C3_StatisticsDefined ==
    Results =>
        /\ nrows(report.bt_data) >= 1
        /\ \A k \in DOMAIN report.stats : IsNum(report.stats[k])

\* C4: the handler reports the not-enough-data condition exactly when no row
\* remains after the rows with undefined values are dropped, and then it
\* computes no summary statistic, equity curve or trade marker.
C4_NotEnoughData ==
    Reported =>
        /\ report.shown = "not_enough_data" <=> empty(dropna(report.frame))
        /\ report.shown = "not_enough_data" =>
               /\ report.stats = NoStats
               /\ report.equity_strategy = <<>>
               /\ report.equity_market = <<>>
               /\ report.buy_signals = <<>>
               /\ report.sell_signals = <<>>
        /\ report.shown = "results" => report.stats # NoStats

\* A run on a table with rows of which none is kept.
C4_Witness ==
    /\ Reported
    /\ nrows(report.frame) > 0
    /\ empty(report.bt_data)
    /\ report.shown = "not_enough_data"

----------------------------------------------------------------------------
(* Properties of the indicators.  The page computes them on a fetched     *)
(* table of MIN_ROWS rows or more, in the script run that follows the      *)
(* fetch.                                                                  *)

IndicatorsShown ==
    /\ stock_data # None
    /\ fetch_status = "loaded"
    /\ nrows(stock_data) >= MIN_ROWS

\* The 14-bar mean gain and mean loss of lines 70-71.
mean_gain(close) == rolling_mean(where_gt0(diff(close)), RSI_WINDOW)
mean_loss(close) == rolling_mean(neg_where_lt0(diff(close)), RSI_WINDOW)

\* C5: in calculate_technical_indicators, RSI is undefined at every bar
\* where the 14-bar mean loss is exactly 0 (it is never 100 there), and
\* every defined RSI lies in [0, 100].
C5_RSIUndefinedOrBounded ==
    IndicatorsShown =>
        LET rsi  == col(calculate_technical_indicators(stock_data, close_col),
                        "RSI")
            loss == mean_loss(col(stock_data, close_col))
        IN  \A i \in 1..Len(rsi) :
                /\ IsZero(loss[i]) => IsNaN(rsi[i])
                /\ ~IsNaN(rsi[i]) => Le(I(0), rsi[i]) /\ Le(rsi[i], I(100))

\* A table with a bar of zero mean loss and positive mean gain, where RSI
\* is undefined, and a bar where RSI is defined.
C5_Witness ==
    /\ IndicatorsShown
    /\ LET rsi  == col(calculate_technical_indicators(stock_data, close_col),
                       "RSI")
           loss == mean_loss(col(stock_data, close_col))
           gain == mean_gain(col(stock_data, close_col))
       IN  /\ \E i \in 1..Len(rsi) :
                  IsZero(loss[i]) /\ Gt(gain[i], I(0)) /\ IsNaN(rsi[i])
           /\ \E i \in 1..Len(rsi) : IsNum(rsi[i])

\* C6: RSI is undefined at each of the first 14 bars of a price series, so
\* at every bar of a series of fewer than 15 bars: in the indicators of the
\* page, and in the RSI the backtest computes for a table without one.
C6_RSIUndefinedFirst14 ==
    /\ IndicatorsShown =>
           \A i \in 1..RSI_WINDOW :
               IsNaN(col(calculate_technical_indicators(stock_data,
                                                        close_col), "RSI")[i])
    /\ (Reported /\ report.strategy_type = "RSI Mean Reversion"
            /\ nrows(stock_data) < MIN_ROWS) =>
           \A i \in 1..Min2(RSI_WINDOW, nrows(report.frame)) :
               IsNaN(col(report.frame, "RSI")[i])

----------------------------------------------------------------------------
(* The two scenarios of the specification, run through the page and the   *)
(* handler on the fetched table.                                           *)

AllRows(s, v) == \A i \in 1..Len(s) : s[i] = v

\* C7: for the 300 closes 100 + t, fetched and run through the page with
\* the RSI Mean Reversion strategy, the backtest has results whose Signal
\* is -1 on every row of the later half of the table, and the reported
\* Sharpe ratio of the strategy is negative.
C7_RampShortedWithNegativeSharpe ==
    (stock_data = price_table(<<>> \o Ramp300) /\ fetch_status = "loaded") =>
        \E shown \in {main_content(stock_data)} :
            /\ ~shown.stopped
            /\ \A initial_capital \in Capitals :
                   \E r \in {run_backtest(shown.data, close_col,
                                          "RSI Mean Reversion",
                                          initial_capital)} :
                       /\ r.shown = "results"
                       /\ \A t \in 1..nrows(r.frame) :
                              2 * t > nrows(r.frame) =>
                                  col(r.frame, "Signal")[t] = I(-1)
                       /\ Lt(r.stats.sharpe_strategy, I(0))

\* C8: for 100 equal closes, fetched and run through the page, a backtest
\* of any strategy has results with a market return of 0 on every row, a
\* market Sharpe ratio of 0 and a market drawdown of 0.
C8_FlatSeriesAllZero ==
    (stock_data = price_table(<<>> \o Flat100) /\ fetch_status = "loaded") =>
        \E shown \in {main_content(stock_data)} :
            /\ ~shown.stopped
            /\ \A strategy_type \in Strategies, initial_capital \in Capitals :
                   \E r \in {run_backtest(shown.data, close_col,
                                          strategy_type, initial_capital)} :
                       /\ r.shown = "results"
                       /\ AllRows(col(r.bt_data, "Returns"), I(0))
                       /\ r.stats.sharpe_market = I(0)
                       /\ r.stats.drawdown_market = I(0)

----------------------------------------------------------------------------
(* Properties of the reported figures.                                     *)

NonDecreasing(s) == \A i \in 2..Len(s) : Le(s[i - 1], s[i])

DrawdownAsClaimed(dd, curve) ==
    /\ Le(dd, I(0))
    /\ IsZero(dd) <=> NonDecreasing(curve)

\* C9: in every backtest with results, the reported max drawdown of the
\* market curve and of the strategy curve is <= 0, and it is 0 exactly
\* when the curve never decreases over the retained rows.
C9_DrawdownNonPositive ==
    Results =>
        /\ DrawdownAsClaimed(report.stats.drawdown_market,
                             col(report.bt_data, "Cumulative_Market"))
        /\ DrawdownAsClaimed(report.stats.drawdown_strategy,
                             col(report.bt_data, "Cumulative_Strategy"))

\* (mean / std) * sqrt(252) of a series, kept as sign(x) * x^2, defined
\* for a std that is not 0.
SharpeRatio(s) ==
    Mul(I(Sign(mean(s)[1]) * TRADING_DAYS),
        Div(Mul(mean(s), mean(s)), variance(s)))

SharpeAsClaimed(reported, s) ==
    /\ IsZero(variance(s)) => reported = I(0)
    /\ ~IsZero(variance(s)) => reported = SharpeRatio(s)
    /\ ~IsInf(reported)

\* C10: in every backtest with results, each reported Sharpe ratio is
\* (mean / std) * sqrt(252) of its return series over the retained rows
\* when the std is not 0, and exactly 0 when the std is 0; it is never the
\* infinity of a division by a zero std.
C10_SharpeZeroStdPolicy ==
    Results =>
        /\ SharpeAsClaimed(report.stats.sharpe_market,
                           col(report.bt_data, "Returns"))
        /\ SharpeAsClaimed(report.stats.sharpe_strategy,
                           col(report.bt_data, "Strategy_Returns"))

\* Results with two retained rows or more where one return series has a
\* std of 0 and a Sharpe ratio of 0, and the other a std that is not 0 and
\* a Sharpe ratio that is not 0.
C10_Witness ==
    /\ Results
    /\ nrows(report.bt_data) >= 2
    /\ IsZero(variance(col(report.bt_data, "Strategy_Returns")))
    /\ report.stats.sharpe_strategy = I(0)
    /\ IsNum(variance(col(report.bt_data, "Returns")))
    /\ ~IsZero(variance(col(report.bt_data, "Returns")))
    /\ IsNum(report.stats.sharpe_market)
    /\ ~IsZero(report.stats.sharpe_market)

Returned == IndicatorsCalled /\ report.shown = "indicators"

\* C17: the table calculate_technical_indicators returns has the date
\* index of its input, in the same order, every column has one entry per
\* input row and the close column is the input's, for every input length.
C17_SameRows ==
    Returned =>
        /\ report.frame.index = stock_data.index
        /\ nrows(report.frame) = nrows(stock_data)
        /\ \A k \in 1..Len(report.frame.cols) :
               Len(report.frame.cols[k][2]) = nrows(stock_data)
        /\ col(report.frame, close_col) = col(stock_data, close_col)

\* A returned table of 1 to 13 rows, shorter than every window, whose RSI
\* and Bollinger columns are undefined at every row.
C17_Witness ==
    /\ Returned
    /\ nrows(stock_data) \in 1..(RSI_WINDOW - 1)
    /\ \A t \in 1..nrows(report.frame) :
           /\ IsNaN(col(report.frame, "RSI")[t])
           /\ IsNaN(col(report.frame, "BB_Upper")[t])

\* C20: at every bar of the input, the first included, MACD, MACD_Signal
\* and MACD_Hist are defined, MACD_Hist is MACD minus MACD_Signal, and all
\* three are 0 at the first bar.
C20_MACDDefinedEverywhere ==
    Returned =>
        \A t \in 1..nrows(report.frame) :
            /\ IsNum(col(report.frame, "MACD")[t])
            /\ IsNum(col(report.frame, "MACD_Signal")[t])
            /\ IsNum(col(report.frame, "MACD_Hist")[t])
            /\ col(report.frame, "MACD_Hist")[t]
                   = Sub(col(report.frame, "MACD")[t],
                         col(report.frame, "MACD_Signal")[t])
            /\ t = 1 =>
                   /\ col(report.frame, "MACD")[t] = I(0)
                   /\ col(report.frame, "MACD_Signal")[t] = I(0)
                   /\ col(report.frame, "MACD_Hist")[t] = I(0)

\* A returned table of fewer than MACD_SLOW rows with a bar where MACD and
\* MACD_Hist are defined and not 0.
C20_Witness ==
    /\ Returned
    /\ nrows(report.frame) < MACD_SLOW
    /\ \E t \in 2..nrows(report.frame) :
           /\ IsNum(col(report.frame, "MACD")[t])
           /\ ~IsZero(col(report.frame, "MACD")[t])
           /\ IsNum(col(report.frame, "MACD_Hist")[t])
           /\ ~IsZero(col(report.frame, "MACD_Hist")[t])

\* The bands are undefined at the first BB_WINDOW - 1 bars and nowhere
\* else, the standard deviation is not negative and the bands are in
\* order around the middle.
BandsDefinedAndOrdered ==
    \E std \in {bollinger_std(col(stock_data, close_col))} :
        \A t \in 1..nrows(report.frame) :
            /\ IsNaN(col(report.frame, "BB_Middle")[t]) <=> t < BB_WINDOW
            /\ IsNaN(col(report.frame, "BB_Upper")[t]) <=> t < BB_WINDOW
            /\ IsNaN(col(report.frame, "BB_Lower")[t]) <=> t < BB_WINDOW
            /\ t >= BB_WINDOW =>
                   /\ Le(I(0), std[t])
                   /\ Le(col(report.frame, "BB_Lower")[t],
                         col(report.frame, "BB_Middle")[t])
                   /\ Le(col(report.frame, "BB_Middle")[t],
                         col(report.frame, "BB_Upper")[t])

\* BB_Upper - BB_Middle and BB_Middle - BB_Lower at bar t.
UpperGap(t) ==
    Sub(col(report.frame, "BB_Upper")[t], col(report.frame, "BB_Middle")[t])
LowerGap(t) ==
    Sub(col(report.frame, "BB_Middle")[t], col(report.frame, "BB_Lower")[t])

\* C21 as stated: the bands are undefined at exactly the first 19 bars,
\* and wherever they are defined BB_Upper - BB_Middle = BB_Middle -
\* BB_Lower = 2 * sigma >= 0, so that BB_Lower <= BB_Middle <= BB_Upper.
C21_BandsSymmetric ==
    Returned =>
        /\ BandsDefinedAndOrdered
        /\ \E std \in {bollinger_std(col(stock_data, close_col))} :
               \A t \in BB_WINDOW..nrows(report.frame) :
                   /\ UpperGap(t) = LowerGap(t)
                   /\ UpperGap(t) = Mul(I(2), std[t])

\* |a - b| <= |c| / 2^(MantissaBits - 1): a and b are within one unit in
\* the last place of c.
WithinUlp(a, b, c) ==
    /\ Le(Sub(a, b), Div(IF c[1] < 0 THEN Neg(c) ELSE c,
                         I(Pow2(MantissaBits - 1))))
    /\ Le(Sub(b, a), Div(IF c[1] < 0 THEN Neg(c) ELSE c,
                         I(Pow2(MantissaBits - 1))))

\* C21 as amended: the bands are undefined at exactly the first 19 bars,
\* and wherever they are defined BB_Lower <= BB_Middle <= BB_Upper with
\* BB_Upper the float nearest to BB_Middle + 2 * sigma and BB_Lower the
\* float nearest to BB_Middle - 2 * sigma, sigma >= 0: each gap is 2 * sigma
\* to within one unit in the last place of its band.
C21_BandsSymmetricToRounding ==
    Returned =>
        /\ BandsDefinedAndOrdered
        /\ \E std \in {bollinger_std(col(stock_data, close_col))} :
               \A t \in BB_WINDOW..nrows(report.frame) :
                   /\ col(report.frame, "BB_Upper")[t]
                          = Float(Add(col(report.frame, "BB_Middle")[t],
                                      Mul(I(2), std[t])))
                   /\ col(report.frame, "BB_Lower")[t]
                          = Float(Sub(col(report.frame, "BB_Middle")[t],
                                      Mul(I(2), std[t])))
                   /\ WithinUlp(UpperGap(t), Mul(I(2), std[t]),
                                col(report.frame, "BB_Upper")[t])
                   /\ WithinUlp(LowerGap(t), Mul(I(2), std[t]),
                                col(report.frame, "BB_Lower")[t])

\* A returned table with a bar where the bands are defined, sigma is
\* positive and the two gaps differ.
C21_Witness ==
    /\ Returned
    /\ \E t \in BB_WINDOW..nrows(report.frame) :
           /\ Lt(I(0), UpperGap(t))
           /\ Lt(I(0), LowerGap(t))
           /\ UpperGap(t) # LowerGap(t)

----------------------------------------------------------------------------
(* The handler as a component *)

BacktestCalled == fetch_status = "run_backtest"

SameColumn(a, b, c) == col(a, c) = col(b, c)

----------------------------------------------------------------------------
(* Properties of the signals of a backtest run from the page *)

SMAStrategies == {"SMA Crossover (20/50)", "SMA Crossover (50/200)"}

FastWindow(strategy_type) ==
    IF strategy_type = "SMA Crossover (20/50)" THEN SMA_20 ELSE SMA_50
SlowWindow(strategy_type) ==
    IF strategy_type = "SMA Crossover (20/50)" THEN SMA_50 ELSE SMA_200

\* Signal(t) under an SMA strategy as the claim states it.
SMASignalAt(fast, slow, t) ==
    IF IsNum(fast[t]) /\ IsNum(slow[t]) /\ Gt(fast[t], slow[t])
    THEN I(1) ELSE I(0)

\* C13: under either SMA Crossover strategy, Signal(t) is 1 exactly when
\* both moving averages of the handed table are defined at t and the fast
\* one is above the slow one, and 0 otherwise; it is 0 at every bar with
\* fewer than slow-window bars of history and never -1.
C13_SMASignal ==
    (Reported /\ report.strategy_type \in SMAStrategies) =>
        \E close \in {col(report.frame, close_col)} :
          \E fast \in {rolling_mean(close, FastWindow(report.strategy_type))},
             slow \in {rolling_mean(close, SlowWindow(report.strategy_type))} :
            \A t \in 1..nrows(report.frame) :
                /\ col(report.frame, "Signal")[t] = SMASignalAt(fast, slow, t)
                /\ t < SlowWindow(report.strategy_type) =>
                       col(report.frame, "Signal")[t] = I(0)
                /\ col(report.frame, "Signal")[t] # I(-1)

\* An SMA run whose table has a bar with Signal 1, and a bar with Signal 0
\* although both averages are defined there.
C13_Witness ==
    /\ Reported
    /\ report.strategy_type \in SMAStrategies
    /\ \E t \in 1..nrows(report.frame) :
           col(report.frame, "Signal")[t] = I(1)
    /\ \E t \in 1..nrows(report.frame) :
           /\ col(report.frame, "Signal")[t] = I(0)
           /\ IsNum(col(report.frame, "SMA_Slow")[t])
           /\ IsNum(col(report.frame, "SMA_Fast")[t])

\* Signal under RSI Mean Reversion as the claim states it, from the RSI of
\* the bar alone.
RSISignalOf(rsi) ==
    IF IsNaN(rsi) THEN I(0)
    ELSE IF Lt(rsi, I(RSI_OVERSOLD)) THEN I(1)
    ELSE IF Gt(rsi, I(RSI_OVERBOUGHT)) THEN I(-1)
    ELSE I(0)

\* C14: under RSI Mean Reversion the Signal of every bar is 1 when the
\* bar's RSI is below 30, -1 when it is above 70 and 0 in every other
\* case, an undefined RSI included, whatever the Signal of the bar before.
C14_RSISignalPerBar ==
    (Reported /\ report.strategy_type = "RSI Mean Reversion") =>
        \A t \in 1..nrows(report.frame) :
            col(report.frame, "Signal")[t]
                = RSISignalOf(col(report.frame, "RSI")[t])

\* An RSI run with a bar of Signal -1 and, later, a bar of Signal 0 right
\* after a bar of Signal 1 whose RSI is defined and between the thresholds.
C14_Witness ==
    /\ Reported
    /\ report.strategy_type = "RSI Mean Reversion"
    /\ \E t \in 1..nrows(report.frame) :
           col(report.frame, "Signal")[t] = I(-1)
    /\ \E t \in 2..nrows(report.frame) :
           /\ col(report.frame, "Signal")[t - 1] = I(1)
           /\ col(report.frame, "Signal")[t] = I(0)
           /\ IsNum(col(report.frame, "RSI")[t])

SignalValues == {I(-1), I(0), I(1)}

HasShort(signal) == \E t \in 1..Len(signal) : signal[t] = I(-1)

\* Every Signal of the run shown is -1, 0 or 1, and no SMA run has a -1.
SignalsInRange ==
    Reported =>
        /\ \A t \in 1..nrows(report.frame) :
               col(report.frame, "Signal")[t] \in SignalValues
        /\ report.strategy_type \in SMAStrategies =>
               ~HasShort(col(report.frame, "Signal"))

\* C15 as amended: every Signal of every strategy is -1, 0 or 1, and no
\* run of an SMA strategy or of MACD Crossover has a Signal of -1 (RSI
\* Mean Reversion alone goes short).
C15_OnlyRSIShorts ==
    /\ SignalsInRange
    /\ (Reported /\ report.strategy_type = "MACD Crossover") =>
           ~HasShort(col(report.frame, "Signal"))

\* A MACD run with a bar where MACD is below its signal line and Signal is
\* 0, and a bar with Signal 1.
C15_Witness ==
    /\ Reported
    /\ report.strategy_type = "MACD Crossover"
    /\ \E t \in 1..nrows(report.frame) :
           /\ Lt(col(report.frame, "MACD")[t],
                 col(report.frame, "MACD_Signal")[t])
           /\ col(report.frame, "Signal")[t] = I(0)
    /\ \E t \in 1..nrows(report.frame) :
           col(report.frame, "Signal")[t] = I(1)

\* C15 as stated: every Signal is -1, 0 or 1, no SMA run has a -1, and
\* RSI Mean Reversion and MACD Crossover each give a Signal of -1 for some
\* download.
C15_RSIAndMACDShort ==
    /\ SignalsInRange
    /\ \A strategy_type \in {"RSI Mean Reversion", "MACD Crossover"} :
           \E c \in Downloads :
               HasShort(col(strategy_signals(main_content(price_table(c)).data,
                                             close_col, strategy_type),
                            "Signal"))

Range(seq) == {seq[i] : i \in 1..Len(seq)}

\* Signal of retained bar k minus Signal of the retained bar before it.
SignalChange(k) ==
    Sub(col(report.bt_data, "Signal")[k], col(report.bt_data, "Signal")[k - 1])

\* The dates of the retained bars, the first excepted, whose Signal changed
\* by d.
ChangedBy(d) ==
    {report.bt_data.index[k] :
         k \in {k \in 2..nrows(report.bt_data) : SignalChange(k) = I(d)}}

\* C16: the buy markers are exactly the retained bars whose Signal is that
\* of the previous retained bar plus 1, the sell markers exactly those
\* where it is that minus 1; the first retained bar and a change of +2 or
\* -2 get no marker; and the figures, equity curves and return columns
\* shown are those computed from the retained rows alone.
C16_Markers ==
    Results =>
        /\ Range(report.buy_signals) = ChangedBy(1)
        /\ Range(report.sell_signals) = ChangedBy(-1)
        /\ report.bt_data.index[1]
               \notin Range(report.buy_signals) \cup Range(report.sell_signals)
        /\ \A k \in 2..nrows(report.bt_data) :
               SignalChange(k) \in {I(2), I(-2)} =>
                   report.bt_data.index[k]
                       \notin Range(report.buy_signals)
                                  \cup Range(report.sell_signals)
        /\ report.stats
               = summary_statistics(dropna(report.frame), report.initial_capital)
        /\ report.equity_strategy
               = SeriesScale(report.initial_capital,
                             col(dropna(report.frame), "Cumulative_Strategy"))
        /\ report.equity_market
               = SeriesScale(report.initial_capital,
                             col(dropna(report.frame), "Cumulative_Market"))

\* Results with a change of Signal by 2 between two retained bars and a
\* marker at another bar.
C16_Witness ==
    /\ Results
    /\ \E k \in 2..nrows(report.bt_data) : SignalChange(k) \in {I(2), I(-2)}
    /\ Len(report.buy_signals) + Len(report.sell_signals) > 0

----------------------------------------------------------------------------
(* The session's table across script runs *)

\* C18: a script run that does not store a newly fetched table leaves
\* st.session_state['stock_data'] with exactly the columns and values it
\* had: the indicator, Signal, return and cumulative columns of the run go
\* to copies.
C18_CallerTableUnmodified ==
    [][(stock_data # None /\ fetch_status' # "loaded") =>
           stock_data' = stock_data]_vars

\* A run on a table of MIN_ROWS rows or more, whose results hold the
\* indicator and the return columns while the session's table holds the
\* close column alone.
C18_Witness ==
    /\ Results
    /\ nrows(stock_data) >= MIN_ROWS
    /\ {"RSI", "MACD", "BB_Upper", "Signal", "Cumulative_Strategy"}
           \subseteq columns(report.frame)
    /\ columns(stock_data) = {close_col}

\* The table as it was fetched: the date index and the close column.
as_fetched(df) == select(df, {close_col})

----------------------------------------------------------------------------
(* fetch_stock_data as a component *)

FetchReturned == fetch_status = "returned"

\* The download attempts made so far: one per exception raised, and the
\* one that returned the table.
Downloaded == Len(report.raised) + (IF report.df # None THEN 1 ELSE 0)

\* An error whose message contains 'Rate' or '429'.
RateLimitError(error_msg) ==
    \E i \in 1..Len(error_msg) : error_msg[i] \in {"Rate", "429"}

\* What holds of a call at every step.
FetchContract ==
    /\ Downloaded <= report.max_retries
    /\ \A k \in 1..(Len(report.raised) - 1) :
           RateLimitError(report.raised[k]) /\ k < report.max_retries
    /\ FetchReturned =>
           /\ (report.df # None) # (report.error # NoError)
           /\ (report.df # None) => report.error = NoError
           /\ (report.df = None /\ report.raised # <<>>) =>
                  \E last \in {report.raised[Len(report.raised)]} :
                      IF RateLimitError(last)
                      THEN /\ report.error = RateLimitMessage
                           /\ Downloaded = report.max_retries
                      ELSE report.error = ErrorMessage(last)
    /\ ~FetchReturned =>
           /\ report.df = None /\ report.error = NoError
           /\ \A k \in 1..Len(report.raised) : RateLimitError(report.raised[k])

\* C22: fetch_stock_data returns, after at most max_retries downloads; a
\* further attempt follows a rate-limit error ('Rate' or '429' in the
\* message) before the last attempt only; the first success returns the
\* table without error, any other error returns its message at once, a
\* rate-limit error at the last attempt returns the rate-limit message;
\* and a return holds exactly one of table and error.
C22_FetchTerminates == []FetchContract /\ <>FetchReturned

\* A call that returned the rate-limit message after MAX_RETRIES downloads,
\* each rate-limited.
C22_Witness ==
    /\ FetchReturned
    /\ report.max_retries = MAX_RETRIES
    /\ Len(report.raised) = MAX_RETRIES
    /\ report.error = RateLimitMessage
    /\ report.df = None

----------------------------------------------------------------------------
(* The sidebar across script runs *)

FetchFailed == fetch_status \in {"error", "no_data"}

\* C23: a Fetch Data press that ends in an error or in an empty table
\* leaves st.session_state['stock_data'] and ['ticker_info'] as they were;
\* a step that changes either of them is a successful fetch of a table with
\* rows, which stores the table and the ticker's info together; and
\* stock_data, once a table, is never None again.
C23_FailedFetchKeepsSession ==
    [][/\ fetch_status' \in {"error", "no_data"} =>
              stock_data' = stock_data /\ ticker_info' = ticker_info
       /\ (stock_data' # stock_data \/ ticker_info' # ticker_info) =>
              /\ fetch_status' = "loaded"
              /\ ~empty(stock_data')
              /\ ticker_info' \in TickerInfos(ticker)
       /\ stock_data # None => stock_data' # None]_vars

\* A press that failed for one ticker while the table and the info loaded
\* for the other ticker stay in the session.
C23_Witness ==
    /\ FetchFailed
    /\ stock_data # None
    /\ ticker_info = dict({<<"symbol", CHOOSE t \in Tickers : t # ticker>>})

\* C24: whenever a table is loaded, the close, open, high, low and volume
\* column names that lines 607-611 resolve from the ticker input are
\* columns of the loaded table, whatever ticker edits and fetches came
\* before.
C24_ResolvedColumnsExist ==
    stock_data # None =>
        \A k \in 1..Len(Fields) :
            column_name(Fields[k], stock_data, ticker) \in columns(stock_data)

\* C25: no entry of the result cache is an error return, so that the call
\* after an error return for a ticker and date range finds no entry and
\* runs the body of fetch_stock_data, downloading again.
C25_ErrorsNotCached ==
    \A key \in Tickers : cache[key] # None => cache[key].error = ""

----------------------------------------------------------------------------
(* The table of the main content *)

\* C26: the table lines 613-614 hand to the charts and to the backtest is
\* a contiguous suffix of the fetched table: its rows are the last bars of
\* the fetched series, one after the other, so that only leading bars were
\* removed and consecutive rows are consecutive bars.
C26_CleanedTableIsSuffix ==
    stock_data # None =>
        \E shown \in {main_content(stock_data)} :
            \A i \in 1..nrows(shown.data) :
                shown.data.index[i] =
                    nrows(stock_data) - nrows(shown.data) + i

============================================================================
